---- MODULE Spec2Model ----
(***************************************************************************)
(* A model of the HTTP file server in src/main.go: the three handlers      *)
(* (browseHandler, downloadHandler, uploadHandler), the Range parser       *)
(* (parseRange) and the part of the filesystem they act on.                *)
(*                                                                         *)
(* Strings are sequences of one-character strings, so that prefix tests,   *)
(* splitting, cleaning, number parsing and number formatting are computed  *)
(* character by character as the Go library computes them.                 *)
(***************************************************************************)
EXTENDS Integers, Sequences, FiniteSets, TLC

VARIABLES
    fs,     \* the filesystem: [dirs: set of paths, files: path -> content]
    h,      \* per handler invocation: request, position, handles, response
    pr      \* a parseRange call in isolation: [s, size, called, out]

vars == <<fs, h, pr>>

(***************************************************************************)
(* Bounds of the model.                                                    *)
(***************************************************************************)
\* resource sizes 0..MaxSize and numbers 0..MaxSize+1 in Range headers
MaxSize == 12
\* at most this many path segments in a request path
MaxPathSegs == 3
\* at most this many path segments in an upload form field
MaxFormSegs == 2
\* the served file holds 0..MaxFileLen bytes
MaxFileLen == 3
\* bytes moved by one read/write step of io.Copy
ChunkSize == 2

(***************************************************************************)
(* Strings (package strings, strconv).                                     *)
(***************************************************************************)
Digits == <<"0", "1", "2", "3", "4", "5", "6", "7", "8", "9">>

DigitSet == {Digits[i] : i \in 1..10}

DigitVal(c) == (CHOOSE i \in 1..10 : Digits[i] = c) - 1

\* strings.HasPrefix(s, prefix)
HasPrefix(s, prefix) ==
    /\ Len(s) >= Len(prefix)
    /\ SubSeq(s, 1, Len(prefix)) = prefix

\* strings.TrimPrefix(s, prefix)
TrimPrefix(s, prefix) ==
    IF HasPrefix(s, prefix) THEN SubSeq(s, Len(prefix) + 1, Len(s)) ELSE s

\* index of the first occurrence of character c in s, 0 when there is none
IndexOf(s, c) ==
    IF \E i \in 1..Len(s) : s[i] = c
    THEN CHOOSE i \in 1..Len(s) : s[i] = c /\ \A j \in 1..(i - 1) : s[j] # c
    ELSE 0

\* strings.Split(s, sep) for a one-character separator
RECURSIVE Split(_, _)
Split(s, sep) ==
    LET i == IndexOf(s, sep)
    IN  IF i = 0 THEN <<s>>
        ELSE <<SubSeq(s, 1, i - 1)>> \o Split(SubSeq(s, i + 1, Len(s)), sep)

WhiteSpace == {" ", "\t", "\n", "\r"}

\* strings.TrimSpace(s)
RECURSIVE TrimSpace(_)
TrimSpace(s) ==
    IF s = <<>> THEN s
    ELSE IF s[1] \in WhiteSpace THEN TrimSpace(Tail(s))
    ELSE IF s[Len(s)] \in WhiteSpace THEN TrimSpace(SubSeq(s, 1, Len(s) - 1))
    ELSE s

\* the value of a non-empty string of decimal digits
RECURSIVE DecVal(_)
DecVal(ds) ==
    IF Len(ds) = 0 THEN 0
    ELSE 10 * DecVal(SubSeq(ds, 1, Len(ds) - 1)) + DigitVal(ds[Len(ds)])

\* strconv.ParseInt(s, 10, 64): an optional sign, then one or more decimal
\* digits. (A value outside int64 is a range error; the numbers of this
\* model have at most two digits.)
ParseInt(s) ==
    LET signed == Len(s) > 0 /\ s[1] \in {"+", "-"}
        ds     == IF signed THEN Tail(s) ELSE s
        neg    == signed /\ s[1] = "-"
    IN  IF Len(ds) = 0 \/ \E i \in 1..Len(ds) : ds[i] \notin DigitSet
        THEN [err |-> TRUE, val |-> 0]
        ELSE [err |-> FALSE, val |-> IF neg THEN 0 - DecVal(ds) ELSE DecVal(ds)]

\* strconv.FormatInt(n, 10) and fmt's %d
RECURSIVE FormatNat(_)
FormatNat(n) ==
    IF n < 10 THEN <<Digits[n + 1]>>
    ELSE FormatNat(n \div 10) \o <<Digits[(n % 10) + 1]>>

FormatInt(n) == IF n < 0 THEN <<"-">> \o FormatNat(0 - n) ELSE FormatNat(n)

(***************************************************************************)
(* parseRange                                                              *)
(***************************************************************************)
BytesEq == <<"b", "y", "t", "e", "s", "=">>

RangeErr == [err |-> TRUE, ranges |-> <<>>]

\* "-N", the last N bytes, without the clamp at the start of the resource
SuffixRangeNoClamp(n, size) == [start |-> size - n, end |-> size - 1]

\* "-N": the last N bytes
SuffixRange(n, size) ==
    [start |-> IF size - n < 0 THEN 0 ELSE size - n, end |-> size - 1]

\* "N-" ending one byte past the resource
StartRangePastEnd(n, size) == [start |-> n, end |-> size]

\* "N-": from byte N to the end
StartRange(n, size) == [start |-> n, end |-> size - 1]

\* "N-M"
FullRange(n, m) == [start |-> n, end |-> m]

\* the validation with the last byte of the resource refused
ValidRangeStrictEnd(r, size) ==
    ~(r.start < 0 \/ r.start >= size \/ r.end < r.start \/ r.end >= size - 1)

\* the validation of a computed range against the resource size
ValidRange(r, size) ==
    ~(r.start < 0 \/ r.start >= size \/ r.end < r.start \/ r.end >= size)

\* one iteration of parseRange's loop: [err, start, end] of one range spec
ParseSpec(rangeSpec0, size) ==
    LET rangeSpec == TrimSpace(rangeSpec0)
        parts     == Split(rangeSpec, "-")
        bad       == [err |-> TRUE, start |-> 0, end |-> 0]
        ok(r)     == IF ValidRange(r, size)
                     THEN [err |-> FALSE, start |-> r.start, end |-> r.end]
                     ELSE bad
    IN  IF Len(parts) # 2 THEN bad
        ELSE LET n1 == ParseInt(parts[1])
                 n2 == ParseInt(parts[2])
             IN  IF parts[1] = <<>>
                 THEN IF n2.err THEN bad ELSE ok(SuffixRange(n2.val, size))
                 ELSE IF parts[2] = <<>>
                 THEN IF n1.err THEN bad ELSE ok(StartRange(n1.val, size))
                 ELSE IF n1.err \/ n2.err THEN bad
                 ELSE ok(FullRange(n1.val, n2.val))

\* the loop that leaves a bad spec out and keeps the ranges of the others
RECURSIVE ParseSpecsSkipBad(_, _, _)
ParseSpecsSkipBad(specs, size, ranges) ==
    IF specs = <<>> THEN [err |-> FALSE, ranges |-> ranges]
    ELSE LET r == ParseSpec(Head(specs), size)
         IN  IF r.err THEN ParseSpecsSkipBad(Tail(specs), size, ranges)
             ELSE ParseSpecsSkipBad(Tail(specs), size,
                      Append(ranges, [start |-> r.start, end |-> r.end]))

\* the loop of parseRange over the comma-separated specs: the first bad spec
\* returns the error and no ranges
RECURSIVE ParseSpecs(_, _, _)
ParseSpecs(specs, size, ranges) ==
    IF specs = <<>> THEN [err |-> FALSE, ranges |-> ranges]
    ELSE LET r == ParseSpec(Head(specs), size)
         IN  IF r.err THEN RangeErr
             ELSE ParseSpecs(Tail(specs), size,
                             Append(ranges, [start |-> r.start, end |-> r.end]))

\* parseRange(s, size): [err, ranges]
parseRange(s, size) ==
    IF ~HasPrefix(s, BytesEq) THEN RangeErr
    ELSE ParseSpecs(Split(TrimPrefix(s, BytesEq), ","), size, <<>>)

(***************************************************************************)
(* Paths (package path/filepath, Unix).                                    *)
(***************************************************************************)
Sep == "/"

Dot == <<".">>

DotDot == <<".", ".">>

\* strings.Join(elems, "/")
RECURSIVE JoinSep(_)
JoinSep(elems) ==
    IF elems = <<>> THEN <<>>
    ELSE IF Len(elems) = 1 THEN elems[1]
    ELSE elems[1] \o <<Sep>> \o JoinSep(Tail(elems))

\* filepath.IsAbs(path)
IsAbs(path) == Len(path) > 0 /\ path[1] = Sep

\* the element loop of filepath.Clean: out is the stack of kept elements
RECURSIVE CleanElems(_, _, _)
CleanElems(elems, out, rooted) ==
    IF elems = <<>> THEN out
    ELSE LET e    == Head(elems)
             rest == Tail(elems)
         IN  IF e = <<>> \/ e = Dot THEN CleanElems(rest, out, rooted)
             ELSE IF e = DotDot
             THEN IF out # <<>> /\ out[Len(out)] # DotDot
                  THEN CleanElems(rest, SubSeq(out, 1, Len(out) - 1), rooted)
                  ELSE IF rooted THEN CleanElems(rest, out, rooted)
                  ELSE CleanElems(rest, Append(out, DotDot), rooted)
             ELSE CleanElems(rest, Append(out, e), rooted)

\* filepath.Clean(path)
Clean(path) ==
    IF path = <<>> THEN Dot
    ELSE LET rooted == IsAbs(path)
             out    == JoinSep(CleanElems(Split(path, Sep), <<>>, rooted))
         IN  IF rooted THEN <<Sep>> \o out
             ELSE IF out = <<>> THEN Dot ELSE out

\* filepath.Join(elems...): leading empty elements are dropped, the rest is
\* joined with separators and cleaned
RECURSIVE Join(_)
Join(elems) ==
    IF elems = <<>> THEN <<>>
    ELSE IF Head(elems) = <<>> THEN Join(Tail(elems))
    ELSE Clean(JoinSep(elems))

\* the process's current directory, used by filepath.Abs for a relative path
Cwd == <<Sep>>

\* filepath.Abs(path)
Abs(path) == IF IsAbs(path) THEN Clean(path) ELSE Join(<<Cwd, path>>)

\* path without its trailing separators
RECURSIVE StripTrailingSeps(_)
StripTrailingSeps(path) ==
    IF path # <<>> /\ path[Len(path)] = Sep
    THEN StripTrailingSeps(SubSeq(path, 1, Len(path) - 1))
    ELSE path

\* index of the last separator of path, 0 when there is none
LastSep(path) ==
    IF \E i \in 1..Len(path) : path[i] = Sep
    THEN CHOOSE i \in 1..Len(path) :
            path[i] = Sep /\ \A j \in (i + 1)..Len(path) : path[j] # Sep
    ELSE 0

\* filepath.Base(path)
Base(path) ==
    IF path = <<>> THEN Dot
    ELSE LET p == StripTrailingSeps(path)
             b == SubSeq(p, LastSep(p) + 1, Len(p))
         IN  IF b = <<>> THEN <<Sep>> ELSE b

\* filepath.Dir(path)
Dir(path) == Clean(SubSeq(path, 1, LastSep(path)))

(***************************************************************************)
(* The filesystem: directories and regular files under cleaned absolute    *)
(* paths. A file's content is a sequence of bytes (one-character strings). *)
(***************************************************************************)
\* workingDir, absolute (main makes it so with filepath.Abs or os.Getwd)
workingDir == <<Sep, "r">>

\* a directory beside workingDir whose name starts with workingDir's name
siblingDir == <<Sep, "r", "2">>

Letters == <<"A", "B", "C", "D", "E", "F", "G", "H">>

\* n distinct-looking bytes: byte i differs from its neighbours
Content(n) == [i \in 1..n |-> Letters[((i - 1) % 8) + 1]]

InitFs(served) ==
    [dirs  |-> {<<Sep>>, workingDir, workingDir \o <<Sep, "r">>, siblingDir},
     files |-> (workingDir \o <<Sep, "2">> :> served)
               @@ (workingDir \o <<Sep, "r", Sep, "2">> :> <<>>)
               @@ (siblingDir \o <<Sep, "2">> :> <<"S", "E", "C">>)]

IsDir(f, path) == path \in f.dirs

IsFile(f, path) == path \in DOMAIN f.files

\* the proper ancestors of a cleaned absolute path
Ancestors(path) ==
    {SubSeq(path, 1, IF i = 1 THEN 1 ELSE i - 1) :
        i \in {j \in 1..Len(path) : path[j] = Sep /\ Len(path) > 1}}

\* the outcome of resolving a path (stat, open): "ok", "enoent" (os.IsNotExist)
\* or "enotdir" (a component that is a regular file; not os.IsNotExist)
Lookup(f, path) ==
    IF IsDir(f, path) \/ IsFile(f, path) THEN "ok"
    ELSE IF \E a \in Ancestors(path) : IsFile(f, a) THEN "enotdir"
    ELSE "enoent"

\* os.MkdirAll(path): [err, fs]
MkdirAll(f, path) ==
    IF IsFile(f, path) \/ \E a \in Ancestors(path) : IsFile(f, a)
    THEN [err |-> TRUE, fs |-> f]
    ELSE [err |-> FALSE,
          fs  |-> [f EXCEPT !.dirs = @ \cup Ancestors(path) \cup {path}]]

\* os.Create(path), that is O_RDWR|O_CREATE|O_TRUNC: [err, fs]
Create(f, path) ==
    IF IsDir(f, path) \/ ~IsDir(f, Dir(path))
    THEN [err |-> TRUE, fs |-> f]
    ELSE [err |-> FALSE,
          fs  |-> [f EXCEPT !.files =
                     [q \in (DOMAIN f.files) \cup {path} |->
                        IF q = path THEN <<>> ELSE f.files[q]]]]

\* a write of chunk at offset off of a file: bytes between the old end and
\* off read as zero bytes
WriteAt(content, off, chunk) ==
    LET n == IF Len(content) > off + Len(chunk)
             THEN Len(content) ELSE off + Len(chunk)
    IN  [i \in 1..n |->
            IF i > off /\ i <= off + Len(chunk) THEN chunk[i - off]
            ELSE IF i <= Len(content) THEN content[i]
            ELSE "\\0"]

(***************************************************************************)
(* parseRange called in isolation on a header and a resource size.         *)
(***************************************************************************)
\* all sequences of at most n elements of S
SeqsUpTo(S, n) == UNION {[1..k -> S] : k \in 0..n}

SmallParts == {<<>>, <<"0">>, <<"1">>, <<"x">>}

SmallSpecs == {a \o <<"-">> \o b : a, b \in SmallParts}

\* range specs whose numbers are 0..maxNum: two parts, one part, three
\* parts, padded with spaces, and lists of two specs
RangeSpecs(maxNum) ==
    LET parts == {FormatInt(n) : n \in 0..maxNum} \cup {<<>>, <<"x">>, <<"+", "1">>}
    IN  {a \o <<"-">> \o b : a, b \in parts}
        \cup parts
        \cup {s \o <<"-", "0">> : s \in SmallSpecs}
        \cup {<<" ">> \o s \o <<" ">> : s \in SmallSpecs}
        \cup {s \o <<",", " ">> \o t :
                 s \in SmallSpecs,
                 t \in {<<"0", "-", "0">>, <<"1", "-">>, <<"-", "1">>, <<"x", "-">>}}

\* Range headers: with the bytes= prefix, and with it missing or damaged
RangeHeaders(maxNum) ==
    {BytesEq \o s : s \in RangeSpecs(maxNum)}
    \cup {x \o <<"0", "-", "0">> : x \in {<<>>, <<"b", "y", "t", "e", "s">>, <<"=">>}}

RangeInputs == RangeHeaders(MaxSize + 1)

PrIdle == [s |-> <<>>, size |-> 0, called |-> FALSE, out |-> RangeErr]

\* out := parseRange(s, size)
CallParseRange ==
    /\ ~pr.called
    /\ pr' = [pr EXCEPT !.called = TRUE, !.out = parseRange(pr.s, pr.size)]
    /\ UNCHANGED <<fs, h>>

(***************************************************************************)
(* Handler invocations. Each request is served by one invocation p, which  *)
(* goes from "idle" through the steps of its handler to "done".            *)
(***************************************************************************)
Procs == {"p1", "p2"}

NoHdr ==
    [ContentDisposition |-> <<>>, AcceptRanges |-> <<>>, ContentType |-> <<>>,
     ContentLength |-> <<>>, ContentRange |-> <<>>, Location |-> <<>>]

NoForm ==
    [malformed |-> FALSE, hasFile |-> FALSE, filename |-> <<>>,
     content |-> <<>>, directory |-> <<>>]

NoPage == [CurrentPath |-> <<>>, ParentPath |-> <<>>, Files |-> {}]

IdleH ==
    [pc |-> "idle", handler |-> "none",
     \* the request
     method |-> "", urlPath |-> <<>>, rangeHeader |-> <<>>, form |-> NoForm,
     \* the handler's locals
     requestedPath |-> <<>>, fullPath |-> <<>>,
     fileOpen |-> FALSE, fileOff |-> 0, fileSize |-> 0, copyLeft |-> 0,
     subDir |-> <<>>, targetDir |-> <<>>, dstPath |-> <<>>,
     srcOpen |-> FALSE, srcOff |-> 0, dstOpen |-> FALSE, dstOff |-> 0,
     \* the handles whose Close is deferred: "file", "src", "dst"
     deferred |-> {},
     \* the filesystem or I/O call that returned an error, "" when none did
     failed |-> "",
     \* the directory entries left out of the listing
     skipped |-> {},
     \* the response: status 0 until the header is written
     status |-> 0, hdr |-> NoHdr, body |-> <<>>, page |-> NoPage,
     \* the filesystem calls made so far, in order: [op, path]
     ops |-> <<>>]

\* w.Write(bytes): the first write sends status 200 if none was sent; the
\* server sends no body bytes in answer to HEAD
Write(hs, bytes) ==
    [hs EXCEPT !.status = IF @ = 0 THEN 200 ELSE @,
               !.body = IF hs.method = "HEAD" THEN @ ELSE @ \o bytes]

\* the status and the headers of http.Error, without the message
HttpErrorNoBody(hs, msg, code) ==
    [hs EXCEPT !.hdr.ContentType = <<"text/plain; charset=utf-8">>,
               !.status = code]

\* http.Error(w, msg, code)
HttpError(hs, msg, code) ==
    Write([hs EXCEPT !.hdr.ContentType = <<"text/plain; charset=utf-8">>,
                     !.status = code],
          <<msg \o "\n">>)

\* http.Redirect(w, r, path ? query, code) for a path that starts with a
\* separator: the path is cleaned and a trailing separator is kept, unless
\* the path starts with two separators and so names a host
HttpRedirect(hs, path, query, code) ==
    LET cleaned  == Clean(path)
        trailing == path[Len(path)] = Sep /\ cleaned[Len(cleaned)] # Sep
        namesHost == Len(path) >= 2 /\ path[2] = Sep
    IN  [hs EXCEPT !.hdr.Location =
                      IF namesHost THEN path \o query
                      ELSE cleaned \o (IF trailing THEN <<Sep>> ELSE <<>>)
                                   \o query,
                   !.status = code]

\* a handle is opened and no Close is deferred
DeferSkipped(hs, handle) == hs

\* defer handle.Close()
Defer(hs, handle) == [hs EXCEPT !.deferred = @ \cup {handle}]

\* the handler returns: the deferred Close calls run
Return(hs) ==
    [hs EXCEPT !.pc = "done",
               !.fileOpen = @ /\ "file" \notin hs.deferred,
               !.srcOpen = @ /\ "src" \notin hs.deferred,
               !.dstOpen = @ /\ "dst" \notin hs.deferred]

\* the call named call returned an error
Fail(hs, call) == [hs EXCEPT !.failed = call]

\* the security check of the three handlers on a joined path
PathAllowed(path) == HasPrefix(Abs(path), Abs(workingDir))

Op(name, path) == [op |-> name, path |-> path]

(***************************************************************************)
(* downloadHandler                                                         *)
(***************************************************************************)
DownloadPrefix == <<Sep, "d", "o", "w", "n", "l", "o", "a", "d", Sep>>

\* method check, path resolution and security check
DownloadBegin(p, method, urlPath, rangeHeader) ==
    /\ h[p].pc = "idle"
    /\ LET requestedPath == TrimPrefix(urlPath, DownloadPrefix)
           fullPath      == Join(<<workingDir, requestedPath>>)
           hs == [IdleH EXCEPT !.handler = "download", !.method = method,
                               !.urlPath = urlPath,
                               !.rangeHeader = rangeHeader]
           hr == [hs EXCEPT !.requestedPath = requestedPath,
                            !.fullPath = fullPath]
       IN  h' = [h EXCEPT ![p] =
                IF method \notin {"GET", "HEAD"}
                THEN Return(HttpError(hs, "Method not allowed", 405))
                ELSE IF ~PathAllowed(fullPath)
                THEN Return(HttpError(hr, "Access denied", 403))
                ELSE [hr EXCEPT !.pc = "d_open"]]
    /\ UNCHANGED <<fs, pr>>

\* os.Open(fullPath)
DownloadOpen(p) ==
    /\ h[p].pc = "d_open"
    /\ LET hs  == [h[p] EXCEPT !.ops = Append(@, Op("open", h[p].fullPath))]
           res == Lookup(fs, hs.fullPath)
       IN  h' = [h EXCEPT ![p] =
                IF res = "enoent"
                THEN Return(HttpError(Fail(hs, "open"), "File not found", 404))
                ELSE IF res # "ok"
                THEN Return(HttpError(Fail(hs, "open"),
                                      "Error opening file", 500))
                ELSE Defer([hs EXCEPT !.pc = "d_stat", !.fileOpen = TRUE,
                                      !.fileOff = 0], "file")]
    /\ UNCHANGED <<fs, pr>>

\* the headers every download answer carries (no file name of the model has
\* an extension, so the type is the default one)
DownloadHeaders(hs) ==
    [hs EXCEPT
        !.hdr.ContentDisposition =
            <<"attachment; filename=\"">> \o Base(hs.fullPath) \o <<"\"">>,
        !.hdr.AcceptRanges = <<"bytes">>,
        !.hdr.ContentType = <<"application/octet-stream">>]

\* fmt.Sprintf("bytes */%d", fileSize)
UnsatisfiedRange(fileSize) == <<"bytes */">> \o FormatInt(fileSize)

\* fmt.Sprintf("bytes %d-%d/%d", start, end, fileSize)
SatisfiedRange(start, end, fileSize) ==
    <<"bytes ">> \o FormatInt(start) \o <<"-">> \o FormatInt(end)
                 \o <<"/">> \o FormatInt(fileSize)

\* the test with a list of several ranges let through
RangeRefusedOnErrorOnly(parsed) == parsed.err \/ Len(parsed.ranges) = 0

\* the test that sends 416: a parse error, or not exactly one range
RangeRefused(parsed) == parsed.err \/ Len(parsed.ranges) # 1

\* the seek left out
SeekSkipped(hs, start) == hs

\* file.Seek(start, 0)
Seek(hs, start) == [hs EXCEPT !.fileOff = start]

\* the answer to a request with a Range header, up to the header's writing
DownloadRange(hs, fileSize) ==
    LET parsed == parseRange(hs.rangeHeader, fileSize)
    IN  IF RangeRefused(parsed)
        THEN Return(HttpError(
                 [hs EXCEPT !.hdr.ContentRange = UnsatisfiedRange(fileSize)],
                 "Invalid range", 416))
        ELSE LET start == parsed.ranges[1].start
                 end   == parsed.ranges[1].end
                 contentLength == end - start + 1
                 hw == [Seek(hs, start) EXCEPT
                          !.hdr.ContentRange =
                              SatisfiedRange(start, end, fileSize),
                          !.hdr.ContentLength = FormatInt(contentLength),
                          !.status = 206]
             IN  IF hs.method = "HEAD" THEN Return(hw)
                 ELSE [hw EXCEPT !.pc = "d_copy", !.copyLeft = contentLength]

\* the answer without a Range header that sends the header and no body
DownloadFullNoBody(hs, fileSize) ==
    Return([hs EXCEPT !.hdr.ContentLength = FormatInt(fileSize),
                      !.status = 200])

\* the answer without a Range header that leaves HEAD before the length is set
DownloadFullHeadNoLength(hs, fileSize) ==
    IF hs.method = "HEAD" THEN Return([hs EXCEPT !.status = 200])
    ELSE [hs EXCEPT !.hdr.ContentLength = FormatInt(fileSize),
                    !.status = 200, !.pc = "d_copy", !.copyLeft = -1]

\* the answer to a request without a Range header, up to the header's writing
DownloadFull(hs, fileSize) ==
    LET hw == [hs EXCEPT !.hdr.ContentLength = FormatInt(fileSize),
                         !.status = 200]
    IN  IF hs.method = "HEAD" THEN Return(hw)
        ELSE [hw EXCEPT !.pc = "d_copy", !.copyLeft = -1]

\* the step without the refusal of directories: a directory is served as a
\* file of the size its stat reports, taken as 0
DownloadStatNoDirCheck(p) ==
    /\ h[p].pc = "d_stat"
    /\ LET hs == h[p]
           fileSize == IF IsFile(fs, hs.fullPath)
                       THEN Len(fs.files[hs.fullPath]) ELSE 0
           hh == [DownloadHeaders(hs) EXCEPT !.fileSize = fileSize]
       IN  h' = [h EXCEPT ![p] =
                IF hs.rangeHeader = <<>>
                THEN DownloadFull(hh, fileSize)
                ELSE DownloadRange(hh, fileSize)]
    /\ UNCHANGED <<fs, pr>>

\* file.Stat(), the headers, the Range header, file.Seek and WriteHeader
DownloadStat(p) ==
    /\ h[p].pc = "d_stat"
    /\ LET hs == h[p]
       IN  h' = [h EXCEPT ![p] =
                IF IsDir(fs, hs.fullPath)
                THEN Return(HttpError(hs, "Cannot download directory", 400))
                ELSE LET fileSize == Len(fs.files[hs.fullPath])
                         hh == [DownloadHeaders(hs) EXCEPT
                                   !.fileSize = fileSize]
                     IN  IF hs.rangeHeader = <<>>
                         THEN DownloadFull(hh, fileSize)
                         ELSE DownloadRange(hh, fileSize)]
    /\ UNCHANGED <<fs, pr>>

\* one read offset shared by all the invocations
ReadOffsetShared(p) == h["p1"].fileOff

\* the read offset of the file that invocation p opened: os.Open gives each
\* invocation a file of its own
ReadOffset(p) == h[p].fileOff

\* one read of the file and write to the response by io.Copy (copyLeft < 0)
\* or io.CopyN (copyLeft bytes to go); the copy ends at the end of the file
\* or of the count, or when the response refuses a write that goes beyond
\* the declared Content-Length (http.ErrContentLength), and its error is
\* dropped
DownloadCopy(p) ==
    /\ h[p].pc = "d_copy"
    /\ LET hs      == h[p]
           off     == ReadOffset(p)
           content == fs.files[hs.fullPath]
           avail   == IF Len(content) > off THEN Len(content) - off ELSE 0
           want    == IF hs.copyLeft < 0 \/ hs.copyLeft > ChunkSize
                      THEN ChunkSize ELSE hs.copyLeft
           n       == IF avail < want THEN avail ELSE want
       IN  h' = [h EXCEPT ![p] =
                IF n = 0 THEN Return(hs)
                ELSE IF Len(hs.body) + n > DecVal(hs.hdr.ContentLength)
                THEN Return(Fail(hs, "write"))
                ELSE [Write(hs, SubSeq(content, off + 1, off + n))
                         EXCEPT !.fileOff = off + n,
                                !.copyLeft = IF @ < 0 THEN @ ELSE @ - n]]
    /\ UNCHANGED <<fs, pr>>

\* os.Open(fullPath) of an existing path fails (permissions, descriptors)
DownloadOpenFail(p) ==
    /\ h[p].pc = "d_open"
    /\ Lookup(fs, h[p].fullPath) = "ok"
    /\ h' = [h EXCEPT ![p] =
             Return(HttpError(
                 Fail([h[p] EXCEPT !.ops = Append(@, Op("open", h[p].fullPath))],
                      "open"),
                 "Error opening file", 500))]
    /\ UNCHANGED <<fs, pr>>

\* file.Stat() fails
DownloadStatFail(p) ==
    /\ h[p].pc = "d_stat"
    /\ h' = [h EXCEPT ![p] =
             Return(HttpError(Fail(h[p], "stat"),
                              "Error getting file info", 500))]
    /\ UNCHANGED <<fs, pr>>

\* file.Seek(start, 0) fails, after the Range header parsed to one range
DownloadSeekFail(p) ==
    /\ h[p].pc = "d_stat"
    /\ IsFile(fs, h[p].fullPath)
    /\ h[p].rangeHeader # <<>>
    /\ LET fileSize == Len(fs.files[h[p].fullPath])
           hh == [DownloadHeaders(h[p]) EXCEPT !.fileSize = fileSize]
       IN  /\ ~RangeRefused(parseRange(hh.rangeHeader, fileSize))
           /\ h' = [h EXCEPT ![p] =
                    Return(HttpError(Fail(hh, "seek"),
                                     "Error seeking file", 500))]
    /\ UNCHANGED <<fs, pr>>

\* a read of the file fails, or a write to the response fails because the
\* client has disconnected: io.Copy or io.CopyN stops and returns the error,
\* which the handler drops, and the handler returns
DownloadCopyFail(p, call) ==
    /\ h[p].pc = "d_copy"
    /\ call \in {"read", "write"}
    \* a write is attempted only after a read that returned bytes
    /\ call = "write" => Len(fs.files[h[p].fullPath]) > ReadOffset(p)
    /\ h' = [h EXCEPT ![p] = Return(Fail(h[p], call))]
    /\ UNCHANGED <<fs, pr>>

(***************************************************************************)
(* browseHandler                                                           *)
(***************************************************************************)
\* method check, path resolution and security check
BrowseBegin(p, method, urlPath) ==
    /\ h[p].pc = "idle"
    /\ LET requestedPath == TrimPrefix(urlPath, <<Sep>>)
           fullPath      == Join(<<workingDir, requestedPath>>)
           hs == [IdleH EXCEPT !.handler = "browse", !.method = method,
                               !.urlPath = urlPath]
           hr == [hs EXCEPT !.requestedPath = requestedPath,
                            !.fullPath = fullPath]
       IN  h' = [h EXCEPT ![p] =
                IF method # "GET"
                THEN Return(HttpError(hs, "Method not allowed", 405))
                ELSE IF ~PathAllowed(fullPath)
                THEN Return(HttpError(hr, "Access denied", 403))
                ELSE [hr EXCEPT !.pc = "b_stat"]]
    /\ UNCHANGED <<fs, pr>>

\* os.Stat(fullPath); a file is redirected to its download
BrowseStat(p) ==
    /\ h[p].pc = "b_stat"
    /\ LET hs  == [h[p] EXCEPT !.ops = Append(@, Op("stat", h[p].fullPath))]
           res == Lookup(fs, hs.fullPath)
       IN  h' = [h EXCEPT ![p] =
                IF res = "enoent"
                THEN Return(HttpError(Fail(hs, "stat"), "Path not found", 404))
                ELSE IF res # "ok"
                THEN Return(HttpError(Fail(hs, "stat"),
                                      "Error accessing path", 500))
                ELSE IF ~IsDir(fs, hs.fullPath)
                THEN Return(HttpRedirect(hs, DownloadPrefix \o hs.requestedPath,
                                         <<>>, 302))
                ELSE [hs EXCEPT !.pc = "b_readdir"]]
    /\ UNCHANGED <<fs, pr>>

\* the entries of directory dir
Children(f, dir) ==
    {q \in f.dirs \cup DOMAIN f.files : q # <<Sep>> /\ Dir(q) = dir}

\* the parent path of the page
ParentPath(requestedPath) ==
    IF requestedPath # <<>>
    THEN IF Dir(requestedPath) = Dot THEN <<>> ELSE Dir(requestedPath)
    ELSE <<>>

\* the FileInfo of directory entry q in the listing of requestedPath
FileInfo(f, requestedPath, q) ==
    [Name  |-> Base(q),
     Path  |-> Join(<<requestedPath, Base(q)>>),
     Size  |-> IF IsFile(f, q) THEN Len(f.files[q]) ELSE 0,
     IsDir |-> IsDir(f, q)]

\* os.ReadDir(fullPath), the listing, the parent path and the page (the
\* listing is kept as a set: its order, by file name, is not modelled);
\* entry.Info() fails for the entries of unreadable, which are left out
BrowseList(p, unreadable) ==
    /\ h[p].pc = "b_readdir"
    /\ unreadable \subseteq Children(fs, h[p].fullPath)
    /\ LET hs == [h[p] EXCEPT !.ops = Append(@, Op("readdir", h[p].fullPath)),
                              !.skipped = unreadable,
                              !.failed = IF unreadable # {} THEN "info" ELSE @]
           files == {FileInfo(fs, hs.requestedPath, q) :
                        q \in Children(fs, hs.fullPath) \ unreadable}
           data == [CurrentPath |-> hs.requestedPath,
                    ParentPath  |-> ParentPath(hs.requestedPath),
                    Files       |-> files]
       IN  h' = [h EXCEPT ![p] =
                Return(Write([hs EXCEPT
                                 !.page = data,
                                 !.hdr.ContentType =
                                     <<"text/html; charset=utf-8">>],
                             <<"browse.html">>))]
    /\ UNCHANGED <<fs, pr>>

\* the listing when the metadata of every entry can be read
BrowseReadDir(p) == BrowseList(p, {})

\* os.Stat(fullPath) fails with an error that is not os.IsNotExist
BrowseStatFail(p) ==
    /\ h[p].pc = "b_stat"
    /\ Lookup(fs, h[p].fullPath) = "ok"
    /\ h' = [h EXCEPT ![p] =
             Return(HttpError(
                 Fail([h[p] EXCEPT !.ops = Append(@, Op("stat", h[p].fullPath))],
                      "stat"),
                 "Error accessing path", 500))]
    /\ UNCHANGED <<fs, pr>>

\* os.ReadDir(fullPath) fails
BrowseReadDirFail(p) ==
    /\ h[p].pc = "b_readdir"
    /\ h' = [h EXCEPT ![p] =
             Return(HttpError(
                 Fail([h[p] EXCEPT
                          !.ops = Append(@, Op("readdir", h[p].fullPath))],
                      "readdir"),
                 "Error reading directory", 500))]
    /\ UNCHANGED <<fs, pr>>

(***************************************************************************)
(* uploadHandler                                                           *)
(***************************************************************************)
\* the maxMemory argument of r.ParseMultipartForm, 100 << 20 in the code,
\* scaled to the part sizes of the model
MaxMemory == 2

\* r.ParseMultipartForm(maxMemory): an error for a body that is not a
\* well-formed multipart form; a file part of more than maxMemory bytes is
\* not an error, it is kept in a temporary file instead of in memory
ParseMultipartForm(form, maxMemory) ==
    [err    |-> form.malformed,
     onDisk |-> form.hasFile /\ Len(form.content) > maxMemory]

\* the destination path with the directory components of the name kept
DstPathNoBase(targetDir, filename) == Join(<<targetDir, filename>>)

\* the path of the destination file
DstPath(targetDir, filename) == Join(<<targetDir, Base(filename)>>)

\* method check, the multipart form, the file part, the directory field and
\* its security check
UploadBegin(p, method, form) ==
    /\ h[p].pc = "idle"
    /\ LET hs == [IdleH EXCEPT !.handler = "upload", !.method = method,
                               !.urlPath = <<Sep, "u", "p", "l", "o", "a", "d">>,
                               !.form = form]
           subDir    == Clean(form.directory)
           targetDir == Join(<<workingDir, subDir>>)
           \* r.FormFile("file") has opened the part; its Close is deferred
           ho == Defer([hs EXCEPT !.srcOpen = TRUE], "src")
       IN  h' = [h EXCEPT ![p] =
                IF method = "GET"
                THEN Return(Write([hs EXCEPT !.hdr.ContentType =
                                                <<"text/html; charset=utf-8">>],
                                  <<"upload.html">>))
                ELSE IF method # "POST"
                THEN Return(HttpError(hs, "Method not allowed", 405))
                ELSE IF ParseMultipartForm(form, MaxMemory).err
                THEN Return(HttpError(hs, "Error parsing form: ", 400))
                ELSE IF ~form.hasFile
                THEN Return(HttpError(hs, "Error retrieving file: ", 400))
                ELSE IF form.directory = <<>>
                THEN [ho EXCEPT !.targetDir = workingDir, !.pc = "u_create"]
                ELSE IF ~PathAllowed(targetDir)
                THEN Return(HttpError(
                         [ho EXCEPT !.subDir = subDir, !.targetDir = targetDir],
                         "Access denied", 403))
                ELSE [ho EXCEPT !.subDir = subDir, !.targetDir = targetDir,
                                !.pc = "u_mkdir"]]
    /\ UNCHANGED <<fs, pr>>

\* os.MkdirAll(targetDir, 0755)
UploadMkdir(p) ==
    /\ h[p].pc = "u_mkdir"
    /\ LET hs  == [h[p] EXCEPT !.ops = Append(@, Op("mkdirall", h[p].targetDir))]
           res == MkdirAll(fs, hs.targetDir)
       IN  /\ fs' = res.fs
           /\ h' = [h EXCEPT ![p] =
                   IF res.err
                   THEN Return(HttpError(Fail(hs, "mkdirall"),
                                         "Error creating directory: ", 500))
                   ELSE [hs EXCEPT !.pc = "u_create"]]
    /\ UNCHANGED pr

\* os.Create(dstPath)
UploadCreate(p) ==
    /\ h[p].pc = "u_create"
    /\ LET dstPath == DstPath(h[p].targetDir, h[p].form.filename)
           hs  == [h[p] EXCEPT !.dstPath = dstPath,
                               !.ops = Append(@, Op("create", dstPath))]
           res == Create(fs, dstPath)
       IN  /\ fs' = res.fs
           /\ h' = [h EXCEPT ![p] =
                   IF res.err
                   THEN Return(HttpError(Fail(hs, "create"),
                                         "Error creating file: ", 500))
                   ELSE Defer([hs EXCEPT !.pc = "u_copy", !.dstOpen = TRUE,
                                         !.dstOff = 0, !.srcOff = 0], "dst")]
    /\ UNCHANGED pr

\* one read of the uploaded part and write to the destination by io.Copy;
\* at the end of the part the handler redirects to the browse page
UploadCopy(p) ==
    /\ h[p].pc = "u_copy"
    /\ LET hs    == h[p]
           left  == Len(hs.form.content) - hs.srcOff
           n     == IF left < ChunkSize THEN left ELSE ChunkSize
           chunk == SubSeq(hs.form.content, hs.srcOff + 1, hs.srcOff + n)
           redirectPath == IF hs.subDir # <<>> THEN <<Sep>> \o hs.subDir
                           ELSE <<Sep>>
       IN  IF n = 0
           THEN /\ h' = [h EXCEPT ![p] =
                        Return(HttpRedirect(hs, redirectPath,
                                            <<"?upload=success">>, 303))]
                /\ fs' = fs
           ELSE /\ h' = [h EXCEPT ![p] =
                        [hs EXCEPT !.srcOff = @ + n, !.dstOff = @ + n,
                                   !.ops = Append(@, Op("write", hs.dstPath))]]
                /\ fs' = [fs EXCEPT !.files[hs.dstPath] =
                                       WriteAt(@, hs.dstOff, chunk)]
    /\ UNCHANGED pr

\* os.MkdirAll(targetDir, 0755) fails (permissions, a full disk)
UploadMkdirFail(p) ==
    /\ h[p].pc = "u_mkdir"
    /\ h' = [h EXCEPT ![p] =
             Return(HttpError(
                 Fail([h[p] EXCEPT
                          !.ops = Append(@, Op("mkdirall", h[p].targetDir))],
                      "mkdirall"),
                 "Error creating directory: ", 500))]
    /\ UNCHANGED <<fs, pr>>

\* os.Create(dstPath) fails (permissions, a full disk)
UploadCreateFail(p) ==
    /\ h[p].pc = "u_create"
    /\ LET dstPath == DstPath(h[p].targetDir, h[p].form.filename)
       IN  h' = [h EXCEPT ![p] =
                Return(HttpError(
                    Fail([h[p] EXCEPT !.dstPath = dstPath,
                                      !.ops = Append(@, Op("create", dstPath))],
                         "create"),
                    "Error creating file: ", 500))]
    /\ UNCHANGED <<fs, pr>>

\* io.Copy(dst, file) fails on a read of the part or a write to the
\* destination; what was written so far stays in the destination
UploadCopyFail(p) ==
    /\ h[p].pc = "u_copy"
    /\ h' = [h EXCEPT ![p] =
             Return(HttpError(Fail(h[p], "copy"), "Error saving file: ", 500))]
    /\ UNCHANGED <<fs, pr>>

\* the handler has returned; the invocation is over
Reset(p) ==
    /\ h[p].pc = "done"
    /\ h' = [h EXCEPT ![p] = IdleH]
    /\ UNCHANGED <<fs, pr>>

(***************************************************************************)
(* Requests.                                                               *)
(***************************************************************************)
Methods == {"GET", "HEAD", "POST"}

PathSegs == {DotDot, <<>>, <<"r">>, <<"r", "2">>, <<"2">>}

\* request paths of at most MaxPathSegs segments
RequestPaths == {JoinSep(ss) : ss \in SeqsUpTo(PathSegs, MaxPathSegs)}

\* the served file, an empty file and a directory
FilePaths == {<<"2">>, <<"r", Sep, "2">>, <<"r">>}

\* no Range header, a satisfiable one, a malformed one
FewHeaders == {<<>>, BytesEq \o <<"0", "-", "0">>, <<"x">>}

\* the Range headers sent for the files of FilePaths
ServeHeaders == RangeHeaders(MaxFileLen + 1)

\* directory and filename fields of at most MaxFormSegs segments
FormPaths == {JoinSep(ss) : ss \in SeqsUpTo(PathSegs, MaxFormSegs)}

LowerLetters == <<"s", "t", "u", "v", "w", "x", "y", "z">>

\* n bytes of an uploaded part
Uploaded(n) == [i \in 1..n |-> LowerLetters[((i - 1) % 8) + 1]]

\* multipart forms: well-formed ones with a file part, one without the file
\* part, one that does not parse
Forms ==
    [malformed : {FALSE}, hasFile : {TRUE}, filename : FormPaths,
     content : {Uploaded(0), Uploaded(MaxFileLen)}, directory : FormPaths]
    \cup {[NoForm EXCEPT !.malformed = TRUE], NoForm}

(***************************************************************************)
(* Specifications.                                                         *)
(***************************************************************************)
\* parseRange alone, on every header of RangeInputs and size up to MaxSize
InitRange ==
    /\ fs = InitFs(Content(1))
    /\ h = [p \in Procs |-> IdleH]
    /\ pr \in [s : RangeInputs, size : 0..MaxSize, called : {FALSE},
               out : {RangeErr}]

NextRange == CallParseRange

SpecRange == InitRange /\ [][NextRange]_vars

\* browse and download requests served one at a time
InitRead ==
    /\ fs \in {InitFs(Content(n)) : n \in 0..MaxFileLen}
    /\ h = [p \in Procs |-> IdleH]
    /\ pr = PrIdle

NextRead ==
    \/ /\ h["p1"].pc = "idle"
       /\ \E m \in Methods, u \in RequestPaths, r \in FewHeaders :
             DownloadBegin("p1", m, DownloadPrefix \o u, r)
    \/ /\ h["p1"].pc = "idle"
       /\ \E m \in Methods, u \in FilePaths, r \in ServeHeaders :
             DownloadBegin("p1", m, DownloadPrefix \o u, r)
    \/ DownloadOpen("p1")
    \/ DownloadStat("p1")
    \/ DownloadCopy("p1")
    \/ /\ h["p1"].pc = "idle"
       /\ \E m \in Methods, u \in RequestPaths :
             BrowseBegin("p1", m, <<Sep>> \o u)
    \/ BrowseStat("p1")
    \/ BrowseReadDir("p1")
    \/ Reset("p1")

SpecRead == InitRead /\ [][NextRead]_vars

\* one upload request, served from the initial filesystem to its end
InitUpload ==
    /\ fs = InitFs(Content(MaxFileLen))
    /\ h = [p \in Procs |-> IdleH]
    /\ pr = PrIdle

NextUpload ==
    \/ /\ h["p1"].pc = "idle"
       /\ \E m \in Methods, f \in Forms : UploadBegin("p1", m, f)
    \/ UploadMkdir("p1")
    \/ UploadCreate("p1")
    \/ UploadCopy("p1")

SpecUpload == InitUpload /\ [][NextUpload]_vars

\* the served file, the empty file, a directory and a missing file
PairPaths == FilePaths \cup {<<"x">>}

\* no Range header, single ranges, a malformed header, a list of two ranges
PairHeaders ==
    {<<>>, <<"x">>} \cup
    {BytesEq \o s : s \in {<<"0", "-", "0">>, <<"1", "-">>, <<"-", "2">>,
                           <<"0", "-", "0", ",", " ", "1", "-">>}}

\* two download requests served concurrently, each by its own goroutine, on
\* a filesystem that nothing writes
InitPair ==
    /\ fs \in {InitFs(Content(n)) : n \in 0..MaxFileLen}
    /\ h = [p \in Procs |-> IdleH]
    /\ pr = PrIdle

NextPair ==
    \/ /\ h["p1"].pc = "idle"
       /\ \E m \in {"GET", "HEAD"}, u \in PairPaths, r \in PairHeaders :
             DownloadBegin("p1", m, DownloadPrefix \o u, r)
    \/ /\ h["p2"].pc = "idle"
       /\ h["p1"].pc # "idle"
       /\ \E m \in {"GET", "HEAD"}, u \in PairPaths, r \in PairHeaders :
             DownloadBegin("p2", m, DownloadPrefix \o u, r)
    \/ \E p \in Procs : DownloadOpen(p)
    \/ \E p \in Procs : DownloadStat(p)
    \/ \E p \in Procs : DownloadCopy(p)

SpecPair == InitPair /\ [][NextPair]_vars

\* n bytes of the part uploaded by invocation p: the two invocations send
\* different bytes
UploadedBy(p, n) ==
    IF p = "p1" THEN Uploaded(n)
    ELSE [i \in 1..n |-> LowerLetters[((i + 4) % 8) + 1]]

\* no Range header, satisfiable ones, a malformed one
FaultHeaders == FewHeaders \cup {BytesEq \o <<"1", "-">>}

\* the root, a directory, a file, a missing path
FaultBrowsePaths == {<<>>, <<"r">>, <<"2">>, <<"x">>}

\* a directory, a file, a new name
FaultNames == {<<"r">>, <<"2">>, <<"x">>}

FaultForms ==
    [malformed : {FALSE}, hasFile : {TRUE}, filename : FaultNames,
     content : {Uploaded(0), Uploaded(MaxFileLen)},
     directory : {<<>>} \cup FaultNames]
    \cup {[NoForm EXCEPT !.malformed = TRUE], NoForm}

\* one request, in which any filesystem or I/O call may fail
InitFault ==
    /\ fs \in {InitFs(Content(n)) : n \in 0..MaxFileLen}
    /\ h = [p \in Procs |-> IdleH]
    /\ pr = PrIdle

NextFault ==
    \/ /\ h["p1"].pc = "idle"
       /\ \E m \in {"GET", "HEAD"}, u \in PairPaths, r \in FaultHeaders :
             DownloadBegin("p1", m, DownloadPrefix \o u, r)
    \/ DownloadOpen("p1")
    \/ DownloadOpenFail("p1")
    \/ DownloadStat("p1")
    \/ DownloadStatFail("p1")
    \/ DownloadSeekFail("p1")
    \/ DownloadCopy("p1")
    \/ \E call \in {"read", "write"} : DownloadCopyFail("p1", call)
    \/ /\ h["p1"].pc = "idle"
       /\ \E u \in FaultBrowsePaths : BrowseBegin("p1", "GET", <<Sep>> \o u)
    \/ BrowseStat("p1")
    \/ BrowseStatFail("p1")
    \/ \E unreadable \in SUBSET Children(fs, h["p1"].fullPath) :
          BrowseList("p1", unreadable)
    \/ BrowseReadDirFail("p1")
    \/ /\ h["p1"].pc = "idle"
       /\ \E f \in FaultForms : UploadBegin("p1", "POST", f)
    \/ UploadMkdir("p1")
    \/ UploadMkdirFail("p1")
    \/ UploadCreate("p1")
    \/ UploadCreateFail("p1")
    \/ UploadCopy("p1")
    \/ UploadCopyFail("p1")

SpecFault == InitFault /\ [][NextFault]_vars

\* the lengths of the parts uploaded concurrently
RaceSizes == {0, 1, MaxFileLen}

\* a form that uploads n bytes under the name of the served file, "2", into
\* the root
RaceForm(p, n) ==
    [malformed |-> FALSE, hasFile |-> TRUE, filename |-> <<"2">>,
     content |-> UploadedBy(p, n), directory |-> <<>>]

\* no Range header, and a range up to the end of the file
RaceHeaders == {<<>>, BytesEq \o <<"1", "-">>}

\* an upload to the served file runs concurrently with another upload to it
\* or with a GET download of it
InitRace ==
    /\ fs \in {InitFs(Content(n)) : n \in 0..MaxFileLen}
    /\ h = [p \in Procs |-> IdleH]
    /\ pr = PrIdle

NextRace ==
    \/ /\ h["p1"].pc = "idle"
       /\ \E n \in RaceSizes : UploadBegin("p1", "POST", RaceForm("p1", n))
    \/ /\ h["p2"].pc = "idle"
       /\ \E n \in RaceSizes : UploadBegin("p2", "POST", RaceForm("p2", n))
    \/ /\ h["p2"].pc = "idle"
       /\ \E r \in RaceHeaders :
             DownloadBegin("p2", "GET", DownloadPrefix \o <<"2">>, r)
    \/ \E p \in Procs : UploadCreate(p)
    \/ \E p \in Procs : UploadCopy(p)
    \/ DownloadOpen("p2")
    \/ DownloadStat("p2")
    \/ DownloadCopy("p2")

SpecRace == InitRace /\ [][NextRace]_vars

(***************************************************************************)
(* Properties of parseRange (SpecRange).                                   *)
(***************************************************************************)
OneRange(start, end) ==
    [err |-> FALSE, ranges |-> <<[start |-> start, end |-> end]>>]

\* C4: for every size S and all A, B with 0 <= A <= B < S,
\* parseRange("bytes=A-B", S) returns without error exactly the one range
\* with start = A and end = B.
C4_FullRangeParsed ==
    pr.called =>
        \A A \in 0..MaxSize, B \in 0..MaxSize :
            (/\ A <= B
             /\ B < pr.size
             /\ pr.s = BytesEq \o FormatInt(A) \o <<"-">> \o FormatInt(B))
            => pr.out = OneRange(A, B)

\* bytes=3-11 on a resource of 12 bytes has been parsed to (3, 11)
C4_Witness ==
    /\ pr.called
    /\ pr.s = BytesEq \o <<"3", "-", "1", "1">>
    /\ pr.size = 12
    /\ pr.out = OneRange(3, 11)

\* C6 as stated: for every size S and every suffix length N,
\* parseRange("bytes=-N", S) returns the single range (max(0, S-N), S-1).
C6_SuffixRangeAnySize ==
    pr.called =>
        \A N \in 0..(MaxSize + 1) :
            pr.s = BytesEq \o <<"-">> \o FormatInt(N)
            => pr.out = OneRange(IF pr.size - N > 0 THEN pr.size - N ELSE 0,
                                 pr.size - 1)

\* C6 amended: for every size S >= 1 and every suffix length N >= 1,
\* parseRange("bytes=-N", S) returns the single range (max(0, S-N), S-1);
\* for S = 0 or N = 0 it returns an error and no range.
C6_SuffixRangeNonEmpty ==
    pr.called =>
        \A N \in 0..(MaxSize + 1) :
            pr.s = BytesEq \o <<"-">> \o FormatInt(N)
            => IF pr.size >= 1 /\ N >= 1
               THEN pr.out = OneRange(IF pr.size - N > 0 THEN pr.size - N ELSE 0,
                                      pr.size - 1)
               ELSE pr.out = RangeErr

\* bytes=-11 on a resource of 3 bytes has been parsed to (0, 2)
C6_Witness ==
    /\ pr.called
    /\ pr.s = BytesEq \o <<"-", "1", "1">>
    /\ pr.size = 3
    /\ pr.out = OneRange(0, 2)

\* C7: for every size S and every N with 0 <= N < S,
\* parseRange("bytes=N-", S) returns the single range (N, S-1).
C7_StartRangeParsed ==
    pr.called =>
        \A N \in 0..MaxSize :
            (N < pr.size /\ pr.s = BytesEq \o FormatInt(N) \o <<"-">>)
            => pr.out = OneRange(N, pr.size - 1)

\* bytes=10- on a resource of 12 bytes has been parsed to (10, 11)
C7_Witness ==
    /\ pr.called
    /\ pr.s = BytesEq \o <<"1", "0", "-">>
    /\ pr.size = 12
    /\ pr.out = OneRange(10, 11)

\* C16: when parseRange returns without error, every range of the list
\* satisfies 0 <= start <= end < size; and when one spec of a
\* comma-separated list is malformed or out of bounds (parseRange rejects
\* it when it stands alone), parseRange returns an error and no range at
\* all, also when the other specs of the list are valid.
C16_AllOrNothing ==
    pr.called =>
        /\ ~pr.out.err =>
              \A i \in 1..Len(pr.out.ranges) :
                  /\ 0 <= pr.out.ranges[i].start
                  /\ pr.out.ranges[i].start <= pr.out.ranges[i].end
                  /\ pr.out.ranges[i].end < pr.size
        /\ pr.out.err => pr.out.ranges = <<>>
        /\ HasPrefix(pr.s, BytesEq) =>
              LET specs == Split(TrimPrefix(pr.s, BytesEq), ",")
              IN  /\ (\E i \in 1..Len(specs) :
                         parseRange(BytesEq \o specs[i], pr.size).err)
                     => pr.out = RangeErr
                  /\ ~pr.out.err => Len(pr.out.ranges) = Len(specs)

\* bytes=0-0, x- on a resource of 12 bytes, whose first spec is valid alone,
\* has been rejected with no range
C16_Witness ==
    /\ pr.called
    /\ pr.s = BytesEq \o <<"0", "-", "0", ",", " ", "x", "-">>
    /\ pr.size = 12
    /\ ~parseRange(BytesEq \o <<"0", "-", "0">>, pr.size).err
    /\ pr.out = RangeErr

(***************************************************************************)
(* Properties of the handlers (SpecRead, SpecUpload).                      *)
(***************************************************************************)
\* path is the server root, or begins with the root followed by a separator
Contained(path) ==
    \/ path = Abs(workingDir)
    \/ HasPrefix(path, Abs(workingDir) \o <<Sep>>)

\* path is an immediate child of directory dir
ChildOf(path, dir) ==
    /\ HasPrefix(path, dir \o <<Sep>>)
    /\ Len(path) > Len(dir) + 1
    /\ \A i \in (Len(dir) + 2)..Len(path) : path[i] # Sep

\* the size and the parsed Range header of the file an invocation serves
ServedSize(hs) == Len(fs.files[hs.fullPath])

ServedRange(hs) == parseRange(hs.rangeHeader, ServedSize(hs))

\* C1: browseHandler and downloadHandler perform a filesystem operation only
\* on a resolved path that is the root or begins with the root followed by a
\* separator; every other resolved path is answered with 403 and no
\* filesystem operation happens on it.
C1_OnlyContainedPathsTouched ==
    \A p \in Procs :
        h[p].handler \in {"browse", "download"} =>
            /\ \A i \in 1..Len(h[p].ops) : Contained(h[p].ops[i].path)
            /\ (/\ h[p].pc = "done"
                /\ h[p].fullPath # <<>>
                /\ ~Contained(Abs(h[p].fullPath)))
               => (h[p].status = 403 /\ h[p].ops = <<>>)

\* C2: a POST /upload whose directory field resolves to a path that is
\* neither the root nor inside it is answered with 403, and neither MkdirAll
\* nor os.Create nor a write happens.
C2_UploadOutsideRootDenied ==
    \A p \in Procs :
        (/\ h[p].handler = "upload"
         /\ h[p].method = "POST"
         /\ h[p].form.hasFile
         /\ h[p].form.directory # <<>>
         /\ ~Contained(Abs(Join(<<workingDir, Clean(h[p].form.directory)>>))))
        => /\ h[p].ops = <<>>
           /\ h[p].pc = "done" => h[p].status = 403

\* C3: whatever the supplied file name, a file that an upload creates or
\* writes is an immediate child of the invocation's target directory.
C3_UploadedFileIsChildOfTarget ==
    [][\A q \in DOMAIN fs'.files :
          (q \notin DOMAIN fs.files \/ fs'.files[q] # fs.files[q])
          => \E p \in Procs : /\ h'[p].handler = "upload"
                              /\ ChildOf(q, h'[p].targetDir)]_vars

\* an upload named "../2" into directory "r" has written its bytes to the
\* file "2" of the target directory
C3_Witness ==
    \E p \in Procs :
        /\ h[p].handler = "upload"
        /\ h[p].form.filename = DotDot \o <<Sep, "2">>
        /\ h[p].form.directory = <<"r">>
        /\ h[p].pc = "done"
        /\ h[p].status = 303
        /\ fs.files[h[p].targetDir \o <<Sep, "2">>] = Uploaded(MaxFileLen)

\* C5: a GET download whose Range header parses to a single range
\* (start, end) on a file of size S is answered with 206,
\* Content-Range: bytes start-end/S, Content-Length end-start+1 and the
\* file's bytes start..end as the body.
C5_PartialContent ==
    \A p \in Procs :
        (/\ h[p].handler = "download"
         /\ h[p].method = "GET"
         /\ h[p].pc = "done"
         /\ IsFile(fs, h[p].fullPath)
         /\ h[p].rangeHeader # <<>>
         /\ ~ServedRange(h[p]).err
         /\ Len(ServedRange(h[p]).ranges) = 1)
        => LET r == ServedRange(h[p]).ranges[1]
               S == ServedSize(h[p])
           IN  /\ h[p].status = 206
               /\ h[p].hdr.ContentRange =
                     <<"bytes ">> \o FormatInt(r.start) \o <<"-">>
                                  \o FormatInt(r.end) \o <<"/">> \o FormatInt(S)
               /\ h[p].hdr.ContentLength = FormatInt(r.end - r.start + 1)
               /\ h[p].body = SubSeq(fs.files[h[p].fullPath],
                                     r.start + 1, r.end + 1)

\* bytes 1..2 of the three-byte file have been served
C5_Witness ==
    \E p \in Procs :
        /\ h[p].handler = "download"
        /\ h[p].method = "GET"
        /\ h[p].pc = "done"
        /\ h[p].rangeHeader = BytesEq \o <<"1", "-", "2">>
        /\ h[p].status = 206
        /\ h[p].body = <<"B", "C">>

\* C8: for a download of an existing regular file of size S, a non-empty
\* Range header that parseRange rejects, or that parses to a list of other
\* than one range, yields 416 with Content-Range: bytes */S, and never 206.
C8_RangeNotSatisfiable ==
    \A p \in Procs :
        (/\ h[p].handler = "download"
         /\ h[p].method \in {"GET", "HEAD"}
         /\ IsFile(fs, h[p].fullPath)
         /\ h[p].rangeHeader # <<>>
         /\ \/ ServedRange(h[p]).err
            \/ Len(ServedRange(h[p]).ranges) # 1)
        => /\ h[p].status # 206
           /\ h[p].pc = "done"
              => /\ h[p].status = 416
                 /\ h[p].hdr.ContentRange =
                       <<"bytes */">> \o FormatInt(ServedSize(h[p]))

\* a header of two satisfiable ranges has been answered with 416
C8_Witness ==
    \E p \in Procs :
        /\ h[p].handler = "download"
        /\ h[p].pc = "done"
        /\ h[p].rangeHeader = BytesEq \o <<"0", "-", "0", ",", " ", "1", "-">>
        /\ IsFile(fs, h[p].fullPath)
        /\ ServedSize(h[p]) = 3
        /\ ~ServedRange(h[p]).err
        /\ h[p].status = 416

\* C9 as stated: every 416 response of downloadHandler has an empty body.
C9_EmptyBodyOn416 ==
    \A p \in Procs :
        (h[p].handler = "download" /\ h[p].status = 416) => h[p].body = <<>>

\* C9 amended: the body of a 416 response of downloadHandler is the line
\* "Invalid range" that http.Error writes and nothing else (no byte of the
\* file); in answer to HEAD no body is sent.
C9_MessageBodyOn416 ==
    \A p \in Procs :
        (h[p].handler = "download" /\ h[p].status = 416)
        => h[p].body = IF h[p].method = "HEAD" THEN <<>>
                       ELSE <<"Invalid range\n">>

\* a GET with a malformed Range header has been answered with 416 and a body
C9_Witness ==
    \E p \in Procs :
        /\ h[p].handler = "download"
        /\ h[p].method = "GET"
        /\ h[p].pc = "done"
        /\ h[p].rangeHeader = BytesEq \o <<"x", "-">>
        /\ h[p].status = 416
        /\ h[p].body # <<>>

\* C10: a GET download without a Range header of an existing regular file of
\* size S inside the root is answered with 200, Accept-Ranges: bytes,
\* Content-Length: S and the file's S bytes in order as the body.
C10_FullDownload ==
    \A p \in Procs :
        (/\ h[p].handler = "download"
         /\ h[p].method = "GET"
         /\ h[p].pc = "done"
         /\ h[p].rangeHeader = <<>>
         /\ IsFile(fs, h[p].fullPath)
         /\ Contained(h[p].fullPath))
        => /\ h[p].status = 200
           /\ h[p].hdr.AcceptRanges = <<"bytes">>
           /\ h[p].hdr.ContentLength = FormatInt(ServedSize(h[p]))
           /\ h[p].body = fs.files[h[p].fullPath]

\* the file of MaxFileLen bytes has been served whole, in several reads
C10_Witness ==
    \E p \in Procs :
        /\ h[p].handler = "download"
        /\ h[p].method = "GET"
        /\ h[p].pc = "done"
        /\ h[p].rangeHeader = <<>>
        /\ h[p].status = 200
        /\ Len(h[p].body) = MaxFileLen
        /\ Len(h[p].body) > ChunkSize

\* C12: an upload whose request body is larger than the cap (the 100 MiB
\* given to ParseMultipartForm, MaxMemory here) is answered with a client
\* error (4xx), and the destination file is neither created nor written.
C12_OversizedUploadRefused ==
    \A p \in Procs :
        (/\ h[p].handler = "upload"
         /\ h[p].method = "POST"
         /\ h[p].form.hasFile
         /\ Len(h[p].form.content) > MaxMemory)
        => /\ fs.files = InitFs(Content(MaxFileLen)).files
           /\ h[p].pc = "done" => h[p].status \in 400..499

\* C17: a GET or HEAD of /download/<path> whose contained path is a
\* directory is answered with 400; it never streams a byte and never
\* reaches the range logic (no 200, 206 or 416, no Content-Range), whatever
\* the Range header.
C17_DirectoryRefused ==
    \A p \in Procs :
        (/\ h[p].handler = "download"
         /\ h[p].method \in {"GET", "HEAD"}
         /\ Contained(h[p].fullPath)
         /\ IsDir(fs, h[p].fullPath))
        => /\ h[p].status \in {0, 400}
           /\ h[p].pc # "d_copy"
           /\ h[p].hdr.ContentRange = <<>>
           /\ h[p].hdr.ContentLength = <<>>
           /\ h[p].body \in {<<>>, <<"Cannot download directory\n">>}
           /\ h[p].pc = "done" => h[p].status = 400

\* a GET of the directory "r" with a satisfiable-looking Range header has
\* been answered with 400
C17_Witness ==
    \E p \in Procs :
        /\ h[p].handler = "download"
        /\ h[p].method = "GET"
        /\ h[p].fullPath = workingDir \o <<Sep, "r">>
        /\ IsDir(fs, h[p].fullPath)
        /\ h[p].rangeHeader = BytesEq \o <<"0", "-", "0">>
        /\ h[p].pc = "done"
        /\ h[p].status = 400

\* a path inside the root, relative to the root: empty for the root itself
RelativeToRoot(path) ==
    IF path = workingDir THEN <<>>
    ELSE SubSeq(path, Len(workingDir) + 2, Len(path))

\* a URL path with no empty, "." or ".." element, with or without one
\* trailing separator: the form in which the server's mux hands paths on
Canonical(urlPath) ==
    \/ urlPath = Clean(urlPath)
    \/ Clean(urlPath) # <<Sep>> /\ urlPath = Clean(urlPath) \o <<Sep>>

\* C18: for every browse request of a directory, ParentPath is the empty
\* string when the requested directory is the root, and otherwise the
\* relative path of the directory that contains the requested directory
\* (empty when that is the root), for every form of the requested path,
\* also one with a trailing separator. Stated for the canonical forms.
C18_ParentPathIsContainer ==
    \A p \in Procs :
        (/\ h[p].handler = "browse"
         /\ h[p].pc = "done"
         /\ h[p].status = 200
         /\ Canonical(h[p].urlPath)
         /\ Contained(h[p].fullPath))
        => h[p].page.ParentPath =
              IF h[p].fullPath = workingDir THEN <<>>
              ELSE RelativeToRoot(Dir(h[p].fullPath))

(***************************************************************************)
(* Properties of concurrent downloads (SpecPair).                          *)
(***************************************************************************)
\* C11: for every download path and every Range header (absent, a valid
\* single range, invalid), a HEAD request and a GET request on the same
\* unchanged filesystem get the same status and the same response headers,
\* and the HEAD response has no body bytes.
C11_HeadSameAsGet ==
    \A p \in Procs, q \in Procs :
        (/\ h[p].handler = "download"
         /\ h[q].handler = "download"
         /\ h[p].method = "GET"
         /\ h[q].method = "HEAD"
         /\ h[p].urlPath = h[q].urlPath
         /\ h[p].rangeHeader = h[q].rangeHeader)
        => /\ h[q].body = <<>>
           /\ (h[p].pc = "done" /\ h[q].pc = "done")
              => /\ h[q].status = h[p].status
                 /\ h[q].hdr = h[p].hdr

\* GET and HEAD of the served file with bytes=1- have both been answered
\* with 206, the GET with a body
C11_Witness ==
    \E p \in Procs, q \in Procs :
        /\ h[p].method = "GET"
        /\ h[q].method = "HEAD"
        /\ h[p].urlPath = DownloadPrefix \o <<"2">>
        /\ h[q].urlPath = h[p].urlPath
        /\ h[p].rangeHeader = BytesEq \o <<"1", "-">>
        /\ h[q].rangeHeader = h[p].rangeHeader
        /\ h[p].pc = "done"
        /\ h[q].pc = "done"
        /\ h[q].status = 206
        /\ h[q].hdr.ContentLength = <<"2">>
        /\ h[p].body = <<"B", "C">>
        /\ h[q].body = <<>>

\* the body of the answer to a GET of a file of the given content with the
\* given Range header when the request is served alone
AloneBody(content, rangeHeader) ==
    IF rangeHeader = <<>> THEN content
    ELSE LET r == parseRange(rangeHeader, Len(content))
         IN  IF r.err \/ Len(r.ranges) # 1 THEN <<"Invalid range\n">>
             ELSE SubSeq(content, r.ranges[1].start + 1, r.ranges[1].end + 1)

\* C14: when GET downloads of the same file, with the same or different
\* Range headers, run concurrently and the file is not written, the body of
\* each response is the body the request gets when served alone: at every
\* moment it is a prefix of that body, and the whole of it at the end.
C14_ConcurrentGetsIndependent ==
    \A p \in Procs :
        (/\ h[p].handler = "download"
         /\ h[p].method = "GET"
         /\ IsFile(fs, h[p].fullPath))
        => LET alone == AloneBody(fs.files[h[p].fullPath], h[p].rangeHeader)
           IN  /\ HasPrefix(alone, h[p].body)
               /\ h[p].pc = "done" => h[p].body = alone

\* two GETs of the served file are in progress at once: one has sent the
\* first bytes of the whole file and is still copying while the other has
\* sought to byte 1 and sent bytes 1..2
C14_Witness ==
    \E p \in Procs, q \in Procs :
        /\ p # q
        /\ h[p].method = "GET"
        /\ h[q].method = "GET"
        /\ h[p].fullPath = h[q].fullPath
        /\ h[p].rangeHeader = <<>>
        /\ h[q].rangeHeader = BytesEq \o <<"1", "-">>
        /\ h[p].pc = "d_copy"
        /\ h[p].body # <<>>
        /\ Len(h[p].body) < Len(fs.files[h[p].fullPath])
        /\ h[q].pc = "done"
        /\ h[q].body = <<"B", "C">>

(***************************************************************************)
(* Properties of requests that run concurrently with an upload (SpecRace). *)
(***************************************************************************)
\* C13: when two uploads to the same destination run concurrently, with any
\* interleaving of their create (truncate) and write steps, then once both
\* have completed the destination's content is exactly the complete content
\* of the upload that wrote last, never a mixture of bytes of both. Stated
\* on the final state: the content is the complete content of one of the
\* two uploads.
C13_LastWriterWins ==
    \A p \in Procs, q \in Procs :
        (/\ p # q
         /\ h[p].handler = "upload"
         /\ h[q].handler = "upload"
         /\ h[p].pc = "done"
         /\ h[q].pc = "done"
         /\ h[p].status = 303
         /\ h[q].status = 303
         /\ h[p].dstPath = h[q].dstPath)
        => fs.files[h[p].dstPath] \in {h[p].form.content, h[q].form.content}

\* C20: in every 200 or 206 response to a GET download the number of body
\* bytes the handler has written when it returns equals the Content-Length
\* it declared, also when an upload that truncates and rewrites the same
\* path runs between the handler's stat and the end of its copy.
C20_BodyMatchesContentLength ==
    \A p \in Procs :
        (/\ h[p].handler = "download"
         /\ h[p].method = "GET"
         /\ h[p].pc = "done"
         /\ h[p].status \in {200, 206})
        => Len(h[p].body) = DecVal(h[p].hdr.ContentLength)

(***************************************************************************)
(* Properties of requests whose filesystem and I/O calls may fail          *)
(* (SpecFault).                                                            *)
(***************************************************************************)
\* C15: on every exit path of downloadHandler and uploadHandler (success,
\* every error response after the open, a response write that fails because
\* the client disconnected mid-copy) every handle the handler opened (the
\* download source, the multipart source, the upload destination) is closed
\* when the handler returns, and the handler copies nothing more once a
\* read or write has failed.
C15_HandlesReleased ==
    \A p \in Procs :
        /\ h[p].pc = "done"
           => (~h[p].fileOpen /\ ~h[p].srcOpen /\ ~h[p].dstOpen)
        /\ h[p].failed # "" => h[p].pc = "done"

\* a GET download has returned after the write to the response failed in
\* mid-copy, and its file is closed
C15_Witness ==
    \E p \in Procs :
        /\ h[p].handler = "download"
        /\ h[p].failed = "write"
        /\ h[p].body # <<>>
        /\ Len(h[p].body) < h[p].fileSize
        /\ "file" \in h[p].deferred
        /\ h[p].pc = "done"
        /\ ~h[p].fileOpen

\* C19: every filesystem or I/O error in a handler (stat, open, seek, read
\* or write mid-stream, directory creation, file creation, copy) is answered
\* with an error response of the taxonomy (404, 400 or 500); the only errors
\* ignored are the per-entry metadata failures of a listing, which drop the
\* entry and keep the rest of the listing.
C19_ErrorsTranslated ==
    \A p \in Procs :
        (h[p].pc = "done" /\ h[p].failed # "")
        => IF h[p].failed = "info"
           THEN /\ h[p].status = 200
                /\ h[p].page.Files =
                      {FileInfo(fs, h[p].requestedPath, q) :
                          q \in Children(fs, h[p].fullPath) \ h[p].skipped}
           ELSE h[p].status \in {404, 400, 500}

====
